---- MODULE Spec2Model ----
(***************************************************************************)
(* playsync: playlist reconciliation (sync.rs), paginated listing and      *)
(* insertion (youtube.rs), the sync command loop (main.rs) and the         *)
(* configuration operations (config.rs, main.rs).                          *)
(*                                                                         *)
(* A video is represented by its video_id (the title of a VideoInfo is a   *)
(* display string fetched together with the id).  Every suspension point   *)
(* (.await) of the async code is a step boundary.  Progress lines written  *)
(* to the terminal are not part of the state, except the dry-run report.   *)
(***************************************************************************)
EXTENDS Integers, Sequences, FiniteSets, TLC

\* ---- bounds ----
MaxItems == 2       \* playlist items on the platform in the initial state
PageSize == 1       \* items per result page (the code asks for 50 per page)
MaxRuns == 2        \* invocations of the sync command
MaxPlaylists == 3   \* entries of the configuration
MaxActorAdds == 1   \* insertions made by another user of the platform

PlaylistIds == {"A", "B", "C"}
Videos == {"v1", "v2"}
\* an item the platform returns without snippet/contentDetails.videoId
NoVideoId == "no_video_id"
Items == Videos \cup {NoVideoId}

\* ---- Option<T> ----
None == <<>>
Some(x) == <<x>>
IsSome(o) == Len(o) > 0
Unwrap(o) == o[1]

Range(s) == {s[i] : i \in DOMAIN s}
Min(a, b) == IF a < b THEN a ELSE b

Playlist(id, sync_from) == [id |-> id, sync_from |-> sync_from]

VARIABLES
  cfg,          \* Config.playlists as stored on disk
  remote,       \* the platform: playlist id -> its items, in platform order
  runs,         \* sync commands issued so far
  hs,           \* handle_sync: loop state of the current/last invocation
  sp,           \* sync_playlist: locals of the call in progress
  gpi,          \* get_playlist_items: locals of the listing in progress
  prev,         \* summary of the last sync_playlist call that returned
  actor_added   \* log of the <<playlist, video>> insertions of another actor

vars == <<cfg, remote, runs, hs, sp, gpi, prev, actor_added>>

\* ======================= youtube.rs =======================

Offset(page_token) == IF IsSome(page_token) THEN Unwrap(page_token) ELSE 0

\* the page of results the platform returns for a page token
Page(items, page_token) ==
  SubSeq(items, Offset(page_token) + 1,
         Min(Offset(page_token) + PageSize, Len(items)))

NextPageTokenFirstPageOnly(items, page_token) == None

\* result.1.next_page_token: present while items remain
NextPageToken(items, page_token) ==
  IF Offset(page_token) + PageSize < Len(items)
  THEN Some(Offset(page_token) + PageSize)
  ELSE None

\* items without snippet / content_details / video_id are skipped
VideoInfos(items) == SelectSeq(items, LAMBDA item : item # NoVideoId)

GpiIdle ==
  [pc |-> "none", playlist_id |-> "", videos |-> <<>>,
   page_token |-> None, requests |-> 0]

\* let mut videos = Vec::new(); let mut page_token = None;
StartListing(playlist_id) ==
  [pc |-> "loop", playlist_id |-> playlist_id, videos |-> <<>>,
   page_token |-> None, requests |-> 0]

OnPageErrorRetry(g) == [g EXCEPT !.requests = @ + 1]

\* request.doit().await? : the error is returned, videos is dropped
OnPageError(g) == [g EXCEPT !.pc = "err", !.videos = <<>>, !.requests = @ + 1]

\* one iteration of the loop of get_playlist_items
FetchPage(ok) ==
  /\ gpi.pc = "loop"
  /\ LET items == remote[gpi.playlist_id]
         token == NextPageToken(items, gpi.page_token)
     IN  gpi' = IF ok
                THEN [gpi EXCEPT
                        !.videos = @ \o VideoInfos(Page(items, gpi.page_token)),
                        !.page_token = token,
                        !.requests = @ + 1,
                        !.pc = IF IsSome(token) THEN "loop" ELSE "ok"]
                ELSE OnPageError(gpi)
  /\ sp' = [sp EXCEPT !.fetches = @ + 1, !.failed = @ \/ ~ok]
  /\ UNCHANGED <<cfg, remote, runs, hs, prev, actor_added>>

InsertedWithoutVideoId(items, video_id) == Append(items, NoVideoId)

\* playlist_items().insert(..): the platform appends the video
Inserted(items, video_id) == Append(items, video_id)

\* ======================= sync.rs =======================

NoPlaylist == Playlist("", None)

SpIdle ==
  [pc |-> "none", target |-> NoPlaylist, target_videos |-> <<>>,
   target_video_ids |-> {}, videos_to_add |-> <<>>, k |-> 1,
   added_count |-> 0, result |-> "", would_add |-> <<>>,
   listed |-> <<>>, attempted |-> <<>>, fetches |-> 0, failed |-> FALSE,
   dest_at_start |-> <<>>]

\* entry of sync_playlist up to the first await; dest_at_start records the
\* destination's items on the platform at that moment
StartSync(target_playlist, dest_items) ==
  [SpIdle EXCEPT !.pc = "list_target", !.target = target_playlist,
                 !.listed = <<target_playlist.id>>,
                 !.dest_at_start = dest_items]

IsCandidateAlways(video_id, target_video_ids) == TRUE

\* !target_video_ids.contains(&video.video_id)
IsCandidate(video_id, target_video_ids) == video_id \notin target_video_ids

PushCandidatesDedup(videos_to_add, source_videos, target_video_ids) ==
  videos_to_add \o
    SelectSeq(source_videos,
              LAMBDA v : IsCandidate(v, target_video_ids)
                         /\ v \notin Range(videos_to_add))

\* for video in source_videos { if .. { videos_to_add.push(video) } }
PushCandidates(videos_to_add, source_videos, target_video_ids) ==
  videos_to_add \o
    SelectSeq(source_videos, LAMBDA v : IsCandidate(v, target_video_ids))

\* target_videos.iter().map(|item| item.video_id.clone()).collect()
TargetIds(target_videos) == Range(target_videos)

AfterCollectIgnoreDryRun(videos_to_add, dry_run) ==
  IF videos_to_add = <<>> THEN "ok_empty" ELSE "adding"

\* the two early returns after the source loop
AfterCollect(videos_to_add, dry_run) ==
  IF videos_to_add = <<>> THEN "ok_empty"
  ELSE IF dry_run THEN "ok_dry"
  ELSE "adding"

\* state of sync_playlist once the source loop has ended
Collected(s, dry_run) ==
  LET next == AfterCollect(s.videos_to_add, dry_run)
  IN  IF next = "adding" THEN [s EXCEPT !.pc = "adding"]
      ELSE IF next = "ok_dry"
      THEN [s EXCEPT !.pc = "returned", !.result = "Ok",
                     !.would_add = s.videos_to_add]
      ELSE [s EXCEPT !.pc = "returned", !.result = "Ok"]

Sources(s) == Unwrap(s.target.sync_from)

\* the `.await?` on get_playlist_items, for the target and for each source
ListingReturned ==
  /\ gpi.pc \in {"ok", "err"}
  /\ sp.pc \in {"list_target", "list_source"}
  /\ IF gpi.pc = "err"
     THEN /\ sp' = [sp EXCEPT !.pc = "returned", !.result = "Err"]
          /\ gpi' = GpiIdle
     ELSE LET s == IF sp.pc = "list_target"
                   THEN [sp EXCEPT !.target_videos = gpi.videos,
                                   !.target_video_ids = TargetIds(gpi.videos),
                                   !.videos_to_add = <<>>]
                   ELSE [sp EXCEPT !.videos_to_add =
                           PushCandidates(@, gpi.videos, sp.target_video_ids)]
              n == Len(s.listed)
          IN  IF n <= Len(Sources(s))
              THEN /\ sp' = [s EXCEPT !.pc = "list_source",
                                      !.listed = Append(@, Sources(s)[n])]
                   /\ gpi' = StartListing(Sources(s)[n])
              ELSE /\ sp' = Collected(s, hs.dry_run)
                   /\ gpi' = GpiIdle
  /\ UNCHANGED <<cfg, remote, runs, hs, prev, actor_added>>

ShouldAttemptRecheck(video_id, target_items) == video_id \notin Range(target_items)

\* the insertion loop passes every candidate to add_video_to_playlist
ShouldAttempt(video_id, target_items) == TRUE

AddOutcomeAbortOnError(ok) == IF ok THEN "continue" ELSE "abort"

\* match .. { Ok(_) => .., Err(e) => log::warning(..) }: both arms continue
AddOutcome(ok) == "continue"

\* one iteration of `for video in videos_to_add`
AddVideo(ok) ==
  /\ sp.pc = "adding"
  /\ LET video == sp.videos_to_add[sp.k]
         id == sp.target.id
         attempt == ShouldAttempt(video, remote[id])
         success == attempt /\ ok
         s == [sp EXCEPT
                 !.k = @ + 1,
                 !.attempted =
                    IF attempt
                    THEN Append(@, [video_id |-> video, ok |-> ok,
                                    present |-> video \in Range(remote[id])])
                    ELSE @,
                 !.added_count = IF success THEN @ + 1 ELSE @]
     IN  /\ remote' = IF success
                      THEN [remote EXCEPT ![id] = Inserted(@, video)]
                      ELSE remote
         /\ sp' = IF attempt /\ AddOutcome(ok) = "abort"
                  THEN [s EXCEPT !.pc = "returned", !.result = "Err"]
                  ELSE IF s.k > Len(s.videos_to_add)
                  THEN [s EXCEPT !.pc = "returned", !.result = "Ok"]
                  ELSE s
  /\ UNCHANGED <<cfg, runs, hs, gpi, prev, actor_added>>

\* another user of the platform appends a video to the destination of the
\* call in progress
OtherActorAdd(video_id) ==
  /\ sp.pc # "none"
  /\ Len(actor_added) < MaxActorAdds
  /\ remote' = [remote EXCEPT ![sp.target.id] = Inserted(@, video_id)]
  /\ actor_added' = Append(actor_added, <<sp.target.id, video_id>>)
  /\ UNCHANGED <<cfg, runs, hs, sp, gpi, prev>>

\* ======================= main.rs: handle_sync =======================

HsIdle ==
  [pc |-> "idle", dry_run |-> FALSE, playlists_to_sync |-> <<>>,
   todo |-> <<>>, result |-> "", reconciled |-> <<>>]

\* cfg.playlists.into_iter().filter(|p| p.id == id).collect(), or all
PlaylistsToSync(playlists, playlist_id) ==
  IF IsSome(playlist_id)
  THEN SelectSeq(playlists, LAMBDA p : p.id = Unwrap(playlist_id))
  ELSE playlists

\* handle_sync up to the start of the loop
HandleSync(playlist_id, dry_run) ==
  /\ hs.pc = "idle"
  /\ runs < MaxRuns
  /\ runs' = runs + 1
  /\ LET playlists_to_sync == PlaylistsToSync(cfg, playlist_id)
     IN  hs' = [pc |-> IF playlists_to_sync = <<>> THEN "idle" ELSE "loop",
                dry_run |-> dry_run,
                playlists_to_sync |-> playlists_to_sync,
                todo |-> playlists_to_sync,
                result |-> IF playlists_to_sync = <<>> THEN "Ok" ELSE "",
                reconciled |-> <<>>]
  /\ UNCHANGED <<cfg, remote, sp, gpi, prev, actor_added>>

\* one iteration of `for playlist in playlists_to_sync`, or the loop's end
ForPlaylist ==
  /\ hs.pc = "loop"
  /\ sp.pc = "none"
  /\ IF hs.todo = <<>>
     THEN /\ hs' = [hs EXCEPT !.pc = "idle", !.result = "Ok"]
          /\ UNCHANGED <<sp, gpi>>
     ELSE LET playlist == Head(hs.todo)
          IN  /\ hs' = [hs EXCEPT !.todo = Tail(@)]
              /\ IF IsSome(playlist.sync_from)
                 THEN /\ sp' = StartSync(playlist, remote[playlist.id])
                      /\ gpi' = StartListing(playlist.id)
                 ELSE UNCHANGED <<sp, gpi>>
  /\ UNCHANGED <<cfg, remote, runs, prev, actor_added>>

OnSyncErrorContinue == "continue"

\* sync::sync_playlist(..).await? : an error leaves handle_sync
OnSyncError == "abort"

\* sync_playlist has returned to the loop of handle_sync; on an error the
\* playlists not yet visited stay in todo
SyncReturned ==
  /\ sp.pc = "returned"
  /\ hs.pc = "loop"
  /\ LET abort == sp.result = "Err" /\ OnSyncError = "abort"
     IN  hs' = [hs EXCEPT
                  !.reconciled = Append(@, [id |-> sp.target.id,
                                            result |-> sp.result]),
                  !.pc = IF abort THEN "idle" ELSE "loop",
                  !.result = IF abort THEN "Err" ELSE @]
  /\ prev' = Some([target |-> sp.target, dry_run |-> hs.dry_run,
                   result |-> sp.result,
                   candidates |-> Len(sp.videos_to_add),
                   added_count |-> sp.added_count])
  /\ sp' = SpIdle
  /\ UNCHANGED <<cfg, remote, runs, gpi, actor_added>>

\* ======================= config.rs, main.rs: handle_config ==============

\* self.playlists.push(playlist)
add_playlist(playlists, playlist) == Append(playlists, playlist)

\* self.playlists.retain(|p| p.id != id)
remove_playlist(playlists, id) == SelectSeq(playlists, LAMBDA p : p.id # id)

\* the playlists offered by ask_for_sync_items (the closure of its filter)
Offered(playlists, playlist_id) ==
  SelectSeq(playlists,
            LAMBDA p : /\ p.id # playlist_id
                       /\ IsSome(p.sync_from) =>
                            playlist_id \notin Range(Unwrap(p.sync_from)))

\* the ids of the offered items the user ticked, in the order offered
Selected(offered, ticked) ==
  LET F[i \in 0..Len(offered)] ==
        IF i = 0 THEN <<>>
        ELSE IF i \in ticked THEN Append(F[i - 1], offered[i].id)
        ELSE F[i - 1]
  IN  F[Len(offered)]

\* handle_config for --reset / --add / --remove; "" is the absent argument
HandleConfig(reset, confirmed, add, title_ok, ticked, remove) ==
  /\ hs.pc = "idle"
  /\ IF reset
     THEN cfg' = IF confirmed THEN <<>> ELSE cfg
     ELSE IF add # "" /\ ~title_ok
     THEN cfg' = cfg
     ELSE LET sync_from == IF Len(cfg) > 0
                           THEN Selected(Offered(cfg, add), ticked)
                           ELSE <<>>
              playlist == Playlist(add, IF sync_from = <<>> THEN None
                                        ELSE Some(sync_from))
              added == IF add # "" THEN add_playlist(cfg, playlist) ELSE cfg
              removed == IF remove # "" THEN remove_playlist(added, remove)
                         ELSE added
          IN  /\ Len(added) <= MaxPlaylists
              /\ cfg' = removed
  /\ UNCHANGED <<remote, runs, hs, sp, gpi, prev, actor_added>>

\* ======================= initial states =======================

SeqsUpTo(S, n) == UNION {[1..k -> S] : k \in 0..n}

TotalItems(r) == Len(r["A"]) + Len(r["B"]) + Len(r["C"])

InitialRemotes ==
  {r \in [PlaylistIds -> SeqsUpTo(Items, MaxItems)] : TotalItems(r) <= MaxItems}

\* configurations the configuration commands produce
ConfigChoices ==
  { <<Playlist("C", None), Playlist("B", Some(<<"C">>)),
      Playlist("A", Some(<<"C", "B">>))>>,
    <<Playlist("A", None), Playlist("B", Some(<<"A">>)),
      Playlist("C", Some(<<"A">>))>> }

Idle ==
  /\ runs = 0
  /\ hs = HsIdle
  /\ sp = SpIdle
  /\ gpi = GpiIdle
  /\ prev = None
  /\ actor_added = <<>>

Init ==
  /\ cfg \in ConfigChoices
  /\ remote \in InitialRemotes
  /\ Idle

Next ==
  \/ \E playlist_id \in {None} \cup {Some(p) : p \in PlaylistIds},
        dry_run \in BOOLEAN : HandleSync(playlist_id, dry_run)
  \/ ForPlaylist
  \/ \E ok \in BOOLEAN : FetchPage(ok)
  \/ ListingReturned
  \/ \E ok \in BOOLEAN : AddVideo(ok)
  \/ SyncReturned

Spec == Init /\ [][Next]_vars

\* one sync command next to another user of the platform
NextActor ==
  \/ \E playlist_id \in {None} \cup {Some(p) : p \in PlaylistIds},
        dry_run \in BOOLEAN : runs = 0 /\ HandleSync(playlist_id, dry_run)
  \/ ForPlaylist
  \/ \E ok \in BOOLEAN : FetchPage(ok)
  \/ ListingReturned
  \/ \E ok \in BOOLEAN : AddVideo(ok)
  \/ SyncReturned
  \/ \E v \in Videos : OtherActorAdd(v)

SpecActor == Init /\ [][NextActor]_vars

\* the configuration commands, from the default (empty) configuration
InitConfig ==
  /\ cfg = <<>>
  /\ remote = [p \in PlaylistIds |-> <<>>]
  /\ Idle

NextConfig ==
  \E reset \in BOOLEAN, confirmed \in BOOLEAN,
     add \in PlaylistIds \cup {""}, title_ok \in BOOLEAN,
     ticked \in SUBSET (1..MaxPlaylists),
     remove \in PlaylistIds \cup {""} :
       HandleConfig(reset, confirmed, add, title_ok, ticked, remove)

SpecConfig == InitConfig /\ [][NextConfig]_vars

\* ======================= properties =======================

VideoIdsOf(attempted) == [i \in DOMAIN attempted |-> attempted[i].video_id]
Succeeded(attempted) == Cardinality({i \in DOMAIN attempted : attempted[i].ok})
Occurrences(s, x) == Cardinality({i \in DOMAIN s : s[i] = x})
IdsOf(entries) == [i \in DOMAIN entries |-> entries[i].id]
WithSources(playlists) == SelectSeq(playlists, LAMBDA p : IsSome(p.sync_from))

\* C1: no video id of the destination listing taken at the start of
\* sync_playlist is in videos_to_add, and none is passed to
\* add_video_to_playlist in that call.
C1_CandidatesExcludeDestination ==
  /\ \A i \in DOMAIN sp.videos_to_add :
       sp.videos_to_add[i] \notin Range(sp.target_videos)
  /\ \A i \in DOMAIN sp.attempted :
       sp.attempted[i].video_id \notin Range(sp.target_videos)

\* a source video was in the destination listing, another was inserted
C1_Witness ==
  /\ sp.attempted # <<>>
  /\ \E s \in Range(Sources(sp)) :
       Range(remote[s]) \cap Range(sp.target_videos) # {}

\* the concatenation, in source order, of each source's members in fetch
\* order that are absent from the destination snapshot
ExpectedCandidates(source_ids, snapshot) ==
  LET F[i \in 0..Len(source_ids)] ==
        IF i = 0 THEN <<>>
        ELSE F[i - 1] \o SelectSeq(VideoInfos(remote[source_ids[i]]),
                                   LAMBDA v : v \notin snapshot)
  IN  F[Len(source_ids)]

\* C2: once the sources are collected, videos_to_add is the concatenation,
\* in source order, of each source's members in fetch order restricted to
\* the videos absent from the destination snapshot (no deduplication).
C2_CandidatesAreConcatenation ==
  (sp.pc = "adding" \/ (sp.pc = "returned" /\ sp.result = "Ok")) =>
    sp.videos_to_add =
      ExpectedCandidates(Sources(sp), Range(sp.target_videos))

\* a video missing from the destination is a member of both sources and is
\* a candidate twice
C2_Witness ==
  /\ sp.pc = "adding"
  /\ Len(Sources(sp)) = 2
  /\ \E v \in Videos :
       /\ v \in Range(remote[Sources(sp)[1]])
       /\ v \in Range(remote[Sources(sp)[2]])
       /\ Occurrences(sp.videos_to_add, v) = 2

\* C3: in a dry run sync_playlist never calls add_video_to_playlist and
\* leaves the destination as it was at the start of the call.
C3_DryRunNeverInserts ==
  (sp.pc # "none" /\ hs.dry_run) =>
    /\ sp.pc # "adding"
    /\ sp.attempted = <<>>
    /\ sp.added_count = 0
    /\ remote[sp.target.id] = sp.dest_at_start

\* a dry run with candidates has returned, reporting them
C3_Witness ==
  /\ hs.dry_run
  /\ sp.pc = "returned"
  /\ Len(sp.videos_to_add) >= 2
  /\ sp.would_add = sp.videos_to_add

C5_ListingFailureIsFatal ==
  sp.failed =>
    /\ \/ gpi.pc = "err" /\ sp.pc \in {"list_target", "list_source"}
       \/ gpi.pc = "none" /\ sp.pc = "returned" /\ sp.result = "Err"
    /\ sp.attempted = <<>>
    /\ sp.added_count = 0
    /\ remote[sp.target.id] = sp.dest_at_start

\* the listing of the second source failed on its second page
C5_Witness ==
  /\ sp.failed
  /\ sp.pc = "returned"
  /\ sp.result = "Err"
  /\ Len(sp.listed) = 3
  /\ sp.fetches >= 4

\* the call in progress repeats the previous call: same destination with the
\* same sources, both non-dry, nothing else in between
SecondRun ==
  /\ sp.pc # "none"
  /\ IsSome(prev)
  /\ Unwrap(prev).target = sp.target
  /\ ~Unwrap(prev).dry_run
  /\ ~hs.dry_run

\* C6 as stated: after a non-dry run that returned Ok, a second non-dry run
\* in immediate succession has no candidates and attempts no insertion.
C6_Original ==
  (SecondRun /\ Unwrap(prev).result = "Ok") =>
    sp.videos_to_add = <<>> /\ sp.attempted = <<>>

\* C6, amended: the second of two successive non-dry runs has no candidates
\* and attempts no insertion, provided the first run returned Ok with every
\* one of its insertions succeeding.
C6_IdempotentAfterFullSuccess ==
  (/\ SecondRun
   /\ Unwrap(prev).result = "Ok"
   /\ Unwrap(prev).added_count = Unwrap(prev).candidates) =>
    sp.videos_to_add = <<>> /\ sp.attempted = <<>>

\* the first run inserted two videos, the second run listed everything and
\* returned without candidates
C6_Witness ==
  /\ SecondRun
  /\ Unwrap(prev).result = "Ok"
  /\ Unwrap(prev).candidates >= 2
  /\ Unwrap(prev).added_count = Unwrap(prev).candidates
  /\ sp.pc = "returned"
  /\ sp.result = "Ok"
  /\ Len(sp.listed) = Len(Sources(sp)) + 1

\* C7 as stated: when an invocation of the sync command ends, every selected
\* playlist with a source list has been reconciled in it.
C7_Original ==
  (hs.pc = "idle" /\ hs.result # "") =>
    IdsOf(hs.reconciled) = IdsOf(WithSources(hs.playlists_to_sync))

\* C7, amended: a fatal listing error while reconciling one playlist ends the
\* invocation with that error; the playlists before it have been reconciled
\* and no playlist after it is reconciled in that invocation.  Without an
\* error every selected playlist with a source list is reconciled.
C7_ErrorEndsInvocation ==
  /\ \A i \in DOMAIN hs.reconciled :
       hs.reconciled[i].result = "Err" =>
         /\ i = Len(hs.reconciled)
         /\ hs.pc = "idle"
         /\ hs.result = "Err"
  /\ (hs.pc = "idle" /\ hs.result # "") =>
       IdsOf(hs.reconciled) \o IdsOf(WithSources(hs.todo)) =
         IdsOf(WithSources(hs.playlists_to_sync))
  /\ (hs.pc = "idle" /\ hs.result = "Ok") => hs.todo = <<>>

\* the first playlist's listing failed and a later playlist with sources was
\* left out
C7_Witness ==
  /\ hs.pc = "idle"
  /\ hs.result = "Err"
  /\ Len(hs.reconciled) = 1
  /\ WithSources(hs.todo) # <<>>

\* the sync_from relation over the configured playlists
SyncsFrom(a, b) ==
  \E i \in DOMAIN cfg :
    /\ cfg[i].id = a
    /\ IsSome(cfg[i].sync_from)
    /\ b \in Range(Unwrap(cfg[i].sync_from))
    /\ \E j \in DOMAIN cfg : cfg[j].id = b

\* b is reached from a in 1..n steps of sync_from
Reaches(a, b, n) ==
  LET R[k \in 1..n] ==
        IF k = 1 THEN {y \in PlaylistIds : SyncsFrom(a, y)}
        ELSE R[k - 1] \cup
             {y \in PlaylistIds : \E x \in R[k - 1] : SyncsFrom(x, y)}
  IN  b \in R[n]

\* C8: after any sequence of configuration commands no playlist's source list
\* contains its own id and sync_from has no cycle.
C8_NoSelfSyncNoCycle ==
  /\ \A i \in DOMAIN cfg :
       IsSome(cfg[i].sync_from) =>
         cfg[i].id \notin Range(Unwrap(cfg[i].sync_from))
  /\ \A a \in PlaylistIds : ~Reaches(a, a, Cardinality(PlaylistIds))

NumPages(n) == IF n = 0 THEN 1 ELSE (n + PageSize - 1) \div PageSize

\* C9 as stated: a successful listing returns every member item of the
\* playlist once, in platform order, after following the page tokens to the
\* end; a failed page request returns none of the accumulated items.
C9_Original ==
  /\ gpi.pc = "ok" =>
       /\ gpi.videos = remote[gpi.playlist_id]
       /\ ~IsSome(gpi.page_token)
       /\ gpi.requests = NumPages(Len(remote[gpi.playlist_id]))
  /\ gpi.pc = "err" => gpi.videos = <<>>

\* C9, amended: a successful listing returns, once and in platform order,
\* every member item that carries a snippet and a content-details video id
\* (the other items are skipped), after following the page tokens to the
\* end; a failed page request returns none of the accumulated items.
C9_ListingCompleteInOrder ==
  /\ gpi.pc = "ok" =>
       /\ gpi.videos = VideoInfos(remote[gpi.playlist_id])
       /\ ~IsSome(gpi.page_token)
       /\ gpi.requests = NumPages(Len(remote[gpi.playlist_id]))
  /\ gpi.pc = "err" => gpi.videos = <<>>

\* a listing of several pages, with an item without video id, has returned
C9_Witness ==
  /\ gpi.pc = "ok"
  /\ gpi.requests >= 2
  /\ NoVideoId \in Range(remote[gpi.playlist_id])
  /\ gpi.videos # <<>>

\* C10: the destination is listed once per call, first, before every source
\* listing and every insertion, and is not looked at again: every candidate
\* is passed to add_video_to_playlist even when another actor has put it in
\* the destination in the meantime.
C10_SnapshotNeverRechecked ==
  /\ sp.pc # "none" =>
       /\ Len(sp.listed) >= 1
       /\ sp.listed = SubSeq(<<sp.target.id>> \o Sources(sp), 1, Len(sp.listed))
       /\ Occurrences(sp.listed, sp.target.id) = 1
  /\ (sp.pc = "adding" \/ sp.attempted # <<>>) =>
       sp.listed = <<sp.target.id>> \o Sources(sp)
  /\ (sp.pc = "returned" /\ sp.result = "Ok" /\ ~hs.dry_run) =>
       VideoIdsOf(sp.attempted) = sp.videos_to_add

\* the first insertion attempt of the call was for a video that another
\* actor had put in the destination after the listing
C10_Witness ==
  /\ sp.attempted # <<>>
  /\ sp.attempted[1].present
  /\ <<sp.target.id, sp.attempted[1].video_id>> \in Range(actor_added)
  /\ sp.attempted[1].video_id \notin Range(sp.target_videos)
====
